---- MODULE Spec2Model ----
(***************************************************************************)
(* Verification model of erasure-coding/src/lib.rs: derivation of the      *)
(* Reed-Solomon parameters from the validator count, packing of a payload  *)
(* into shards, obtain_chunks, reconstruct, the Branches iterator and the  *)
(* ShardInput byte reader.                                                 *)
(*                                                                         *)
(* Conventions.  Rust slices and vectors are TLA+ sequences; a Rust index  *)
(* i (from 0) is position i + 1 of the sequence.  A Result is a record     *)
(* with tag "Ok" (field val) or "Err" (field err); an abort (panic,        *)
(* expect, index out of bounds) is a record with tag "Panic".  The         *)
(* external crates (reed_solomon_erasure, parity_codec, substrate_trie,    *)
(* the hash) are modelled by their contracts; a shard symbol is an element *)
(* of a prime field instead of GF(256).                                    *)
(***************************************************************************)
EXTENDS Integers, Sequences, FiniteSets, TLC

\* ------------------------------------------------------------------ bounds

\* largest validator count for which chunks are actually encoded
MaxN == 7
\* largest length of the block data of an encoded payload
MaxData == 3
\* largest length of an arbitrary chunk sequence handed to reconstruct
MaxItems == 3
\* largest length of a payload handed to make_shards_for on its own
MaxPayload == 5
\* largest number of calls of ShardInput::read on one ShardInput
MaxReads == 3
\* the largest buffer handed to ShardInput::read
MaxWant == 7

\* ------------------------------------------------------- program constants

MAX_VALIDATORS == 256

\* ----------------------------------------------------------------- results

Ok(v) == [tag |-> "Ok", val |-> v]
Err(e) == [tag |-> "Err", err |-> e]
Panic(m) == [tag |-> "Panic", msg |-> m]

\* enum Error: a variant without fields, and ChunkIndexOutOfBounds(usize, usize)
E(name) == [name |-> name, args |-> <<>>]
ChunkIndexOutOfBounds(idx, n) == [name |-> "ChunkIndexOutOfBounds", args |-> <<idx, n>>]

\* Option<Box<[u8]>>
None == [some |-> FALSE, data |-> <<>>]
Some(d) == [some |-> TRUE, data |-> d]

Min(a, b) == IF a <= b THEN a ELSE b
Max(a, b) == IF a >= b THEN a ELSE b

\* ------------------------------------------------- erasure-coding primitive

IsPrime(p) == p >= 2 /\ \A q \in 2..(p - 1) : p % q # 0

\* Order of the field the modelled code works over: the least prime that
\* exceeds every symbol and every shard index the encoded cases use.
FieldOrder ==
    LET lo == Max(MaxN, MaxData) + 1
    IN  CHOOSE p \in lo..(2 * lo) : IsPrime(p) /\ \A q \in lo..(p - 1) : ~IsPrime(q)

FMod(a) == ((a % FieldOrder) + FieldOrder) % FieldOrder

FInv(a) == CHOOSE y \in 0..(FieldOrder - 1) : FMod(a * y) = 1 \/ (FMod(a) = 0 /\ y = 0)

RECURSIVE FProd(_, _, _, _)
\* product over j in 1..Len(xs), j # skip, of (x - xs[j]) / (xs[skip] - xs[j])
FProd(xs, skip, x, j) ==
    IF j > Len(xs) THEN 1
    ELSE IF j = skip THEN FProd(xs, skip, x, j + 1)
    ELSE FMod(FMod((x - xs[j]) * FInv(xs[skip] - xs[j])) * FProd(xs, skip, x, j + 1))

RECURSIVE FSum(_, _, _, _)
\* Lagrange interpolation: the value at x of the polynomial of degree below
\* Len(xs) through the points (xs[i], ys[i])
FSum(xs, ys, x, i) ==
    IF i > Len(xs) THEN 0
    ELSE FMod(ys[i] * FProd(xs, i, x, 1) + FSum(xs, ys, x, i + 1))

Interpolate(xs, ys, x) == FSum(xs, ys, x, 1)

\* ReedSolomon::new(data_shards, parity_shards)
RSNew(data_shards, parity_shards) ==
    IF data_shards = 0 THEN Err("TooFewDataShards")
    ELSE IF parity_shards = 0 THEN Err("TooFewParityShards")
    ELSE IF data_shards + parity_shards > 256 THEN Err("TooManyShards")
    ELSE Ok([data_shard_count |-> data_shards, parity_shard_count |-> parity_shards])

\* ReedSolomon::encode_shards: fills the parity shards from the data shards
RSEncodeShards(rs, shards) ==
    LET d == rs.data_shard_count
        total == rs.data_shard_count + rs.parity_shard_count
    IN  IF Len(shards) < total THEN Err("TooFewShards")
        ELSE IF Len(shards) > total THEN Err("TooManyShards")
        ELSE IF Len(shards[1]) = 0 THEN Err("EmptyShard")
        ELSE IF \E i \in 1..total : Len(shards[i]) # Len(shards[1]) THEN Err("IncorrectShardSize")
        ELSE Ok([i \in 1..total |->
                    IF i <= d THEN shards[i]
                    ELSE [k \in 1..Len(shards[1]) |->
                            Interpolate([j \in 1..d |-> j - 1],
                                        [j \in 1..d |-> shards[j][k]], i - 1)]])

\* the indices (from 1) of the present shards
Present(shards) == {i \in 1..Len(shards) : shards[i].some}

\* the j-th present shard's index (from 1), in ascending order
NthPresent(shards, j) ==
    CHOOSE i \in Present(shards) : Cardinality({m \in Present(shards) : m < i}) = j - 1

\* ReedSolomon::reconstruct_shards: fills every missing shard from the first
\* data_shard_count present ones; the present shards are left as they are
RSReconstructShards(rs, shards) ==
    LET d == rs.data_shard_count
        total == rs.data_shard_count + rs.parity_shard_count
        present == Present(shards)
    IN  IF Len(shards) < total THEN Err("TooFewShards")
        ELSE IF Len(shards) > total THEN Err("TooManyShards")
        ELSE IF \E i \in present : Len(shards[i].data) = 0 THEN Err("EmptyShard")
        ELSE IF \E i, j \in present : Len(shards[i].data) # Len(shards[j].data)
        THEN Err("IncorrectShardSize")
        ELSE IF Cardinality(present) < d THEN Err("TooFewShardsPresent")
        ELSE LET len == Len(shards[NthPresent(shards, 1)].data)
                 xs == [j \in 1..d |-> NthPresent(shards, j) - 1]
             IN  Ok([i \in 1..total |->
                        IF shards[i].some THEN shards[i]
                        ELSE Some([k \in 1..len |->
                                Interpolate(xs, [j \in 1..d |-> shards[xs[j] + 1].data[k]],
                                            i - 1)])])

\* ----------------------------------------------------------- payload codec

\* (block_data, extrinsic).encode(): the length of the block data, then its
\* bytes; the extrinsic is a unit value and encodes to nothing
Encode(block_data) == <<Len(block_data)>> \o block_data

\* ---------------------------------------------------------------- CodeParams

\* usize::saturating_sub
SaturatingSub(a, b) == IF b > a THEN 0 ELSE a - b

\* code_params with the fault count taken of n instead of n - 1
code_params_no_saturating_sub(n_validators) ==
    IF n_validators > MAX_VALIDATORS THEN Err(E("TooManyValidators"))
    ELSE IF n_validators = 0 THEN Err(E("EmptyValidators"))
    ELSE LET n_faulty == n_validators \div 3
             n_good == n_validators - n_faulty
         IN  IF n_faulty > n_validators \/ n_good < 1
             THEN Panic("attempt to subtract with overflow")
             ELSE Ok([data_shards |-> n_faulty + 1, parity_shards |-> n_good - 1])

\* code_params refusing MAX_VALIDATORS itself
code_params_limit_inclusive(n_validators) ==
    IF n_validators >= MAX_VALIDATORS THEN Err(E("TooManyValidators"))
    ELSE IF n_validators = 0 THEN Err(E("EmptyValidators"))
    ELSE LET n_faulty == SaturatingSub(n_validators, 1) \div 3
             n_good == n_validators - n_faulty
         IN  IF n_faulty > n_validators \/ n_good < 1
             THEN Panic("attempt to subtract with overflow")
             ELSE Ok([data_shards |-> n_faulty + 1, parity_shards |-> n_good - 1])

\* code_params; a usize subtraction that would underflow aborts
code_params(n_validators) ==
    IF n_validators > MAX_VALIDATORS THEN Err(E("TooManyValidators"))
    ELSE IF n_validators = 0 THEN Err(E("EmptyValidators"))
    ELSE LET n_faulty == SaturatingSub(n_validators, 1) \div 3
             n_good == n_validators - n_faulty
         IN  IF n_faulty > n_validators \/ n_good < 1
             THEN Panic("attempt to subtract with overflow")
             ELSE Ok([data_shards |-> n_faulty + 1, parity_shards |-> n_good - 1])

\* the shard length without the remainder
shard_len_quotient(params, base_len) == Max(1, base_len \div params.data_shards)

\* CodeParams::shard_len
shard_len(params, base_len) ==
    (base_len \div params.data_shards) + (base_len % params.data_shards)

\* payload.chunks(shard_len): the number of pieces and the i-th piece (from 0)
NumPieces(payload, len) == (Len(payload) + len - 1) \div len
Piece(payload, len, i) == SubSeq(payload, i * len + 1, Min((i + 1) * len, Len(payload)))

\* CodeParams::make_shards_for (called with a payload that is not empty)
make_shards_for(params, payload) ==
    LET len == shard_len(params, Len(payload))
        total == params.data_shards + params.parity_shards
    IN  [i \in 1..total |->
            [k \in 1..len |->
                IF i <= NumPieces(payload, len)
                   /\ k <= Min(Len(Piece(payload, len, i - 1)), len)
                THEN Piece(payload, len, i - 1)[k]
                ELSE 0]]

\* CodeParams::make_encoder
make_encoder(params) ==
    LET rs == RSNew(params.data_shards, params.parity_shards)
    IN  IF rs.tag = "Ok" THEN rs
        ELSE Panic("this struct is not created with invalid shard number; qed")

\* ------------------------------------------------------------ obtain_chunks

obtain_chunks(n_validators, block_data) ==
    LET params == code_params(n_validators)
    IN  IF params.tag # "Ok" THEN params
        ELSE LET encoded == Encode(block_data)
             IN  IF Len(encoded) = 0 THEN Err(E("BadPayload"))
                 ELSE LET shards == make_shards_for(params.val, encoded)
                          rs == make_encoder(params.val)
                      IN  IF rs.tag # "Ok" THEN rs
                          ELSE LET r == RSEncodeShards(rs.val, shards)
                               IN  IF r.tag # "Ok"
                                   THEN Panic("Payload non-empty, shard sizes are uniform, and validator numbers checked; qed")
                                   ELSE Ok(r.val)

\* -------------------------------------------------------------- ShardInput

\* the loop of read keeping in_shard when it moves on to the next shard
RECURSIVE ReadLoopNoReset(_, _, _, _, _, _)
ReadLoopNoReset(shards, data_shards, shard_idx, in_shard, want, acc) ==
    IF ~(shard_idx < data_shards) \/ Len(acc) = want
    THEN [tag |-> "Ok", bytes |-> acc, cursor |-> <<shard_idx, in_shard>>]
    ELSE IF shard_idx + 1 > Len(shards) THEN Panic("index out of bounds")
    ELSE IF ~shards[shard_idx + 1].some THEN Panic("data shards have been recovered; qed")
    ELSE LET active_shard == shards[shard_idx + 1].data
         IN  IF in_shard >= Len(active_shard)
             THEN ReadLoopNoReset(shards, data_shards, shard_idx + 1, in_shard, want, acc)
             ELSE LET write_len == Min(want - Len(acc), Len(active_shard) - in_shard)
                  IN  ReadLoopNoReset(shards, data_shards, shard_idx, in_shard + write_len,
                                      want,
                                      acc \o SubSeq(active_shard, in_shard + 1,
                                                    in_shard + write_len))

\* the loop of ShardInput::read for a buffer of `want` bytes, from cursor
\* (shard_idx, in_shard) with `acc` already copied
RECURSIVE ReadLoop(_, _, _, _, _, _)
ReadLoop(shards, data_shards, shard_idx, in_shard, want, acc) ==
    IF ~(shard_idx < data_shards) \/ Len(acc) = want
    THEN [tag |-> "Ok", bytes |-> acc, cursor |-> <<shard_idx, in_shard>>]
    ELSE IF shard_idx + 1 > Len(shards) THEN Panic("index out of bounds")
    ELSE IF ~shards[shard_idx + 1].some THEN Panic("data shards have been recovered; qed")
    ELSE LET active_shard == shards[shard_idx + 1].data
         IN  IF in_shard >= Len(active_shard)
             THEN ReadLoop(shards, data_shards, shard_idx + 1, 0, want, acc)
             ELSE LET remaining_len_out == want - Len(acc)
                      remaining_len_shard == Len(active_shard) - in_shard
                      write_len == Min(remaining_len_out, remaining_len_shard)
                  IN  ReadLoop(shards, data_shards, shard_idx, in_shard + write_len, want,
                               acc \o SubSeq(active_shard, in_shard + 1, in_shard + write_len))

\* ShardInput::read(into) with into.len() = want: the bytes copied and the
\* reader afterwards
read(input, want) ==
    LET r == ReadLoop(input.shards, input.data_shards, input.cursor[1], input.cursor[2],
                      want, <<>>)
    IN  IF r.tag = "Panic" THEN r
        ELSE [tag |-> "Ok", bytes |-> r.bytes,
              input |-> [input EXCEPT !.cursor = r.cursor]]

\* the reader made to read every shard
ShardInputOverAll(params, shards) ==
    [shards |-> shards,
     data_shards |-> params.data_shards + params.parity_shards,
     cursor |-> <<0, 0>>]

\* ShardInput { shards, data_shards: params.data_shards, cursor: (0, 0) }
ShardInput(params, shards) ==
    [shards |-> shards, data_shards |-> params.data_shards, cursor |-> <<0, 0>>]

\* Decode::decode for (BlockData, Extrinsic) from a ShardInput: the length,
\* then that many bytes; a short read is a decode failure
Decode(input) ==
    LET head == read(input, 1)
    IN  IF head.tag = "Panic" THEN head
        ELSE IF Len(head.bytes) < 1 THEN Err("short")
        ELSE LET body == read(head.input, head.bytes[1])
             IN  IF body.tag = "Panic" THEN body
                 ELSE IF Len(body.bytes) < head.bytes[1] THEN Err("short")
                 ELSE Ok(body.bytes)

\* -------------------------------------------------------------- reconstruct

\* Option<usize>::None for shard_len
NoLen == -1

\* the iterator without the take
TakeAll(chunks, n) == chunks

\* chunks.into_iter().take(n_validators)
Take(chunks, n) == SubSeq(chunks, 1, Min(n, Len(chunks)))

\* the index check with > for >=
IndexAboveBound(chunk_idx, n_validators) == chunk_idx > n_validators

\* chunk_idx >= n_validators
IndexOutOfBounds(chunk_idx, n_validators) == chunk_idx >= n_validators

\* the length check without the test for zero
LengthDiffers(len, chunk_len) == len # chunk_len

\* *shard_len != chunk_data.len() || *shard_len == 0
NonUniform(len, chunk_len) == len # chunk_len \/ len = 0

\* the store keeping the first chunk of an index
StoreIfEmpty(shards, chunk_idx, chunk_data) ==
    IF shards[chunk_idx + 1].some THEN shards
    ELSE [shards EXCEPT ![chunk_idx + 1] = Some(chunk_data)]

\* shards[chunk_idx] = Some(chunk_data.to_vec().into_boxed_slice())
Store(shards, chunk_idx, chunk_data) ==
    [shards EXCEPT ![chunk_idx + 1] = Some(chunk_data)]

\* the body of the for loop with the length check before the index check
RECURSIVE PopulateLengthFirst(_, _, _, _, _)
PopulateLengthFirst(n_validators, items, i, shards, len) ==
    IF i > Len(items) THEN Ok(shards)
    ELSE LET chunk_data == items[i].data
             chunk_idx == items[i].idx
             l == IF len = NoLen THEN Len(chunk_data) ELSE len
         IN  IF NonUniform(l, Len(chunk_data))
             THEN Err(E("NonUniformChunks"))
             ELSE IF IndexOutOfBounds(chunk_idx, n_validators)
             THEN Err(ChunkIndexOutOfBounds(chunk_idx, n_validators))
             ELSE PopulateLengthFirst(n_validators, items, i + 1,
                                      Store(shards, chunk_idx, chunk_data), l)

\* the body of the for loop of reconstruct, from the i-th item on
RECURSIVE PopulateFrom(_, _, _, _, _)
PopulateFrom(n_validators, items, i, shards, len) ==
    IF i > Len(items) THEN Ok(shards)
    ELSE LET chunk_data == items[i].data
             chunk_idx == items[i].idx
         IN  IF IndexOutOfBounds(chunk_idx, n_validators)
             THEN Err(ChunkIndexOutOfBounds(chunk_idx, n_validators))
             ELSE LET l == IF len = NoLen THEN Len(chunk_data) ELSE len
                  IN  IF NonUniform(l, Len(chunk_data))
                      THEN Err(E("NonUniformChunks"))
                      ELSE PopulateFrom(n_validators, items, i + 1,
                                        Store(shards, chunk_idx, chunk_data), l)

\* a shard array with one slot more
BlankShardsAndOne(n_validators) == [i \in 1..(n_validators + 1) |-> None]

\* vec![None; n_validators]
BlankShards(n_validators) == [i \in 1..n_validators |-> None]

\* the shard array after the for loop of reconstruct, or the loop's error
populate(n_validators, chunks) ==
    PopulateFrom(n_validators, Take(chunks, n_validators), 1,
                 BlankShards(n_validators), NoLen)

\* reconstruct, from the populated shard array on
recover(params, shards) ==
    LET rs == make_encoder(params)
    IN  IF rs.tag # "Ok" THEN rs
        ELSE LET r == RSReconstructShards(rs.val, shards)
             IN  IF r.tag = "Err"
                 THEN IF r.err = "TooFewShardsPresent" THEN Err(E("NotEnoughChunks"))
                      ELSE IF r.err = "InvalidShardFlags" THEN Err(E("WrongValidatorCount"))
                      ELSE IF r.err = "TooManyShards" THEN Err(E("TooManyChunks"))
                      ELSE IF r.err = "EmptyShard"
                      THEN Panic("chunks are all non-empty; this is checked above; qed")
                      ELSE IF r.err = "IncorrectShardSize"
                      THEN Panic("chunks are all same len; this is checked above; qed")
                      ELSE Panic("reed_solomon encoder returns no more variants for this function; qed")
                 ELSE LET payload == Decode(ShardInput(params, r.val))
                      IN  IF payload.tag = "Err" THEN Err(E("BadPayload")) ELSE payload

reconstruct(n_validators, chunks) ==
    LET params == code_params(n_validators)
    IN  IF params.tag # "Ok" THEN params
        ELSE LET shards == populate(n_validators, chunks)
             IN  IF shards.tag # "Ok" THEN shards
                 ELSE recover(params.val, shards.val)

\* the shard array of reconstruct when its for loop is done; <<>> when the
\* call returns before that
populated_shards(n_validators, chunks) ==
    LET params == code_params(n_validators)
    IN  IF params.tag # "Ok" THEN <<>>
        ELSE LET shards == populate(n_validators, chunks)
             IN  IF shards.tag # "Ok" THEN <<>> ELSE shards.val

\* the ShardInput reconstruct decodes from; no value when the call returns or
\* aborts before it makes one
shard_input(n_validators, chunks) ==
    LET params == code_params(n_validators)
    IN  IF params.tag # "Ok" THEN None
        ELSE LET shards == populate(n_validators, chunks)
             IN  IF shards.tag # "Ok" THEN None
                 ELSE LET rs == make_encoder(params.val)
                      IN  IF rs.tag # "Ok" THEN None
                          ELSE LET r == RSReconstructShards(rs.val, shards.val)
                               IN  IF r.tag # "Ok" THEN None
                                   ELSE Some(ShardInput(params.val, r.val))

\* ------------------------------------------------------------- Merkle trie

\* BlakeTwo256::hash and the trie's node hash: an injective function
Hash(x) == [hash_of |-> x]

\* H256::default()
ZeroHash == [hash_of |-> "zero"]

\* (i as u32).using_encoded: the four low bytes of i, least significant first
EncodeU32(i) ==
    <<i % 256, (i \div 256) % 256, (i \div 65536) % 256, (i \div 16777216) % 256>>

\* trie nodes: the empty trie, a leaf holding one key and its value, and the
\* root of a non-empty trie, which holds the hash of the leaf of every key
NullNode == [kind |-> "null"]
LeafNode(key, value) == [kind |-> "leaf", key |-> key, value |-> value]
BranchNode(children) == [kind |-> "branch", children |-> children]

\* TrieDBMut::insert on the key/value map of the trie
TrieInsert(map, key, value) ==
    [k \in (DOMAIN map) \cup {key} |-> IF k = key THEN value ELSE map[k]]

\* the root node of the trie of a key/value map
RootNode(map) ==
    IF DOMAIN map = {} THEN NullNode
    ELSE BranchNode([k \in DOMAIN map |-> Hash(LeafNode(k, map[k]))])

\* the nodes TrieDBMut commits to the MemoryDB when it is dropped
CommitNodes(map) == {RootNode(map)} \cup {LeafNode(k, map[k]) : k \in DOMAIN map}

\* TrieDB::get_with(key, recorder) on the trie of `root` in `storage`: the
\* value (or no value) and the nodes visited, in order
TrieGetWith(storage, root, key) ==
    IF ~\E node \in storage : Hash(node) = root THEN Err("InvalidStateRoot")
    ELSE LET top == CHOOSE node \in storage : Hash(node) = root
         IN  IF top.kind = "null" THEN Ok([value |-> None, nodes |-> <<top>>])
             ELSE IF top.kind = "leaf"
             THEN IF top.key = key THEN Ok([value |-> Some(top.value), nodes |-> <<top>>])
                  ELSE Ok([value |-> None, nodes |-> <<top>>])
             ELSE IF key \notin DOMAIN top.children
             THEN Ok([value |-> None, nodes |-> <<top>>])
             ELSE IF ~\E node \in storage : Hash(node) = top.children[key]
             THEN Err("IncompleteDatabase")
             ELSE LET leaf == CHOOSE node \in storage : Hash(node) = top.children[key]
                  IN  Ok([value |-> Some(leaf.value), nodes |-> <<top, leaf>>])

\* ----------------------------------------------------------------- Branches

\* the insertions with the keys counted from one
RECURSIVE InsertChunksFromOne(_, _, _)
InsertChunksFromOne(map, chunks, i) ==
    IF i > Len(chunks) THEN map
    ELSE InsertChunksFromOne(TrieInsert(map, EncodeU32(i), Hash(chunks[i])), chunks, i + 1)

\* the trie map after the insertions for chunks i..Len(chunks) (from 1)
RECURSIVE InsertChunks(_, _, _)
InsertChunks(map, chunks, i) ==
    IF i > Len(chunks) THEN map
    ELSE InsertChunks(TrieInsert(map, EncodeU32(i - 1), Hash(chunks[i])), chunks, i + 1)

\* branches
branches(chunks) ==
    LET map == InsertChunks(<<>>, chunks, 1)
    IN  [trie_storage |-> CommitNodes(map),
         root |-> Hash(RootNode(map)),
         chunks |-> chunks,
         current_pos |-> 0]

\* Branches::root
root(self) == self.root

\* next without the increment of the cursor
Stay(current_pos) == current_pos

\* self.current_pos += 1
Advance(current_pos) == current_pos + 1

\* the lookup of the chunk without the position
FirstChunk(chunks, current_pos) == chunks[1]

\* self.chunks.get(self.current_pos), for a position that has a chunk
ChunkAt(chunks, current_pos) == chunks[current_pos + 1]

\* next starting over at the end of the sequence
Rewind(self) == [self EXCEPT !.current_pos = 0]

\* None => None: the iterator is left as it is
Finished(self) == self

\* the lookup next makes: TrieDB::new(&self.trie_storage, &self.root) and
\* trie.get_with of the key that encodes current_pos
lookup(self) == TrieGetWith(self.trie_storage, self.root, EncodeU32(self.current_pos))

\* Branches::next: the item returned (no item at the end of the sequence) and
\* the iterator afterwards
next(self) ==
    LET res == lookup(self)
    IN  IF res.tag = "Err" /\ res.err = "InvalidStateRoot"
        THEN Panic("Branches is only created with a valid memorydb that contains all nodes for the trie with given root; qed")
        ELSE IF res.tag = "Err" THEN Panic("all nodes in trie present; qed")
        ELSE IF res.val.value.some
        THEN IF ~(self.current_pos < Len(self.chunks))
             THEN Panic("there is a one-to-one mapping of chunks to valid merkle branches; qed")
             ELSE [tag |-> "Ok",
                   item |-> [some |-> TRUE, nodes |-> res.val.nodes,
                             chunk |-> ChunkAt(self.chunks, self.current_pos)],
                   self |-> [self EXCEPT !.current_pos = Advance(self.current_pos)]]
        ELSE [tag |-> "Ok", item |-> [some |-> FALSE], self |-> Finished(self)]

\* -------------------------------------------------------------------- state

VARIABLES
    pc,            \* "idle", then the call made: "params", "encoded", "reconstructed", "iterating"
    n_validators,  \* the n_validators argument of the calls
    block_data,    \* the block data handed to obtain_chunks
    cp,            \* what code_params returned
    enc,           \* what obtain_chunks returned
    rec_src,       \* where the chunks of the reconstruct call come from
    rec_in,        \* the (chunk, index) sequence handed to reconstruct
    rec_shards,    \* the shard array of reconstruct after its for loop
    rec_out,       \* what reconstruct returned
    br,            \* the Branches iterator
    emitted,       \* what the calls of Branches::next returned, in call order
    packed,        \* a payload and the shards make_shards_for made of it
    input,         \* the ShardInput of a reconstruct call
    reads          \* the calls of ShardInput::read made on it, in call order

vars == <<pc, n_validators, block_data, cp, enc, rec_src, rec_in, rec_shards, rec_out,
          br, emitted, packed, input, reads>>

\* the variables of make_shards_for and of the reader
pack_vars == <<packed, input, reads>>

NoResult == [tag |-> "None"]

\* ------------------------------------------------------------------- inputs

\* validator counts code_params is applied to
ParamValidators == 0..(MAX_VALIDATORS + 2)

\* validator counts obtain_chunks is applied to
EncValidators == (0..MaxN) \cup {MAX_VALIDATORS + 1}

DataBytes == {0, 1}
BlockDatas == UNION {[1..k -> DataBytes] : k \in 0..MaxData}

\* the sequences of k distinct chunk indices below n
DistinctIndices(n, k) ==
    {f \in [1..k -> 0..(n - 1)] : \A i, j \in 1..k : i # j => f[i] # f[j]}

\* k chunks of an encoding, each with its own index, in any order
ChunksOf(chunks, k) ==
    {[i \in 1..k |-> [data |-> chunks[f[i] + 1], idx |-> f[i]]] :
        f \in DistinctIndices(Len(chunks), k)}

\* validator counts reconstruct is applied to with arbitrary chunks
AdvValidators == {0, 1, 2, 4, MAX_VALIDATORS, MAX_VALIDATORS + 1}

\* arbitrary chunks: empty, two of one length, one of another length; with
\* two indices and the first index that is out of bounds
AdvData == {<<>>, <<0>>, <<1>>, <<1, 1>>}
AdvItems(n) == {[data |-> d, idx |-> i] : d \in AdvData, i \in {0, 1, n}}
AdvInputs(n) == UNION {[1..k -> AdvItems(n)] : k \in 0..MaxItems}

\* validator counts make_shards_for is applied to on its own
PackValidators == 1..MaxN

\* the payloads make_shards_for is applied to on its own: not empty
Payloads == UNION {[1..k -> DataBytes] : k \in 1..MaxPayload}

\* the buffer lengths ShardInput::read is called with
Wants == {0, 1, 2, MaxWant}

\* --------------------------------------------------------------------- Init

Init ==
    /\ pc = "idle"
    /\ n_validators = 0
    /\ block_data = <<>>
    /\ cp = NoResult
    /\ enc = NoResult
    /\ rec_src = "none"
    /\ rec_in = <<>>
    /\ rec_shards = <<>>
    /\ rec_out = NoResult
    /\ br = [trie_storage |-> {}, root |-> ZeroHash, chunks |-> <<>>, current_pos |-> 0]
    /\ emitted = <<>>
    /\ packed = [payload |-> <<>>, shards |-> <<>>]
    /\ input = [shards |-> <<>>, data_shards |-> 0, cursor |-> <<0, 0>>]
    /\ reads = <<>>

\* ------------------------------------------------------------------ actions

\* a call of code_params
DeriveParams ==
    /\ pc = "idle"
    /\ \E n \in ParamValidators :
        /\ n_validators' = n
        /\ cp' = code_params(n)
    /\ pc' = "params"
    /\ UNCHANGED <<block_data, enc, rec_src, rec_in, rec_shards, rec_out, br, emitted>>
    /\ UNCHANGED pack_vars

\* a call of obtain_chunks
ObtainChunks ==
    /\ pc = "idle"
    /\ \E n \in EncValidators, b \in BlockDatas :
        /\ n_validators' = n
        /\ block_data' = b
        /\ enc' = obtain_chunks(n, b)
    /\ pc' = "encoded"
    /\ UNCHANGED <<cp, rec_src, rec_in, rec_shards, rec_out, br, emitted>>
    /\ UNCHANGED pack_vars

\* a call of reconstruct with chunks of the encoding obtain_chunks returned:
\* one chunk fewer than the data shards, or as many
ReconstructChunks ==
    /\ pc = "encoded"
    /\ enc.tag = "Ok"
    /\ \E k \in {code_params(n_validators).val.data_shards - 1,
                  code_params(n_validators).val.data_shards} :
        \E s \in ChunksOf(enc.val, k) :
            /\ rec_in' = s
            /\ rec_shards' = populated_shards(n_validators, s)
            /\ rec_out' = reconstruct(n_validators, s)
    /\ rec_src' = "encoding"
    /\ pc' = "reconstructed"
    /\ UNCHANGED <<n_validators, block_data, cp, enc, br, emitted>>
    /\ UNCHANGED pack_vars

\* a call of reconstruct with arbitrary chunks
ReconstructArbitrary ==
    /\ pc = "idle"
    /\ \E n \in AdvValidators :
        \E s \in AdvInputs(n) :
            /\ n_validators' = n
            /\ rec_in' = s
            /\ rec_shards' = populated_shards(n, s)
            /\ rec_out' = reconstruct(n, s)
    /\ rec_src' = "arbitrary"
    /\ pc' = "reconstructed"
    /\ UNCHANGED <<block_data, cp, enc, br, emitted>>
    /\ UNCHANGED pack_vars

\* a call of branches with the first chunks of an encoding
BranchesNew ==
    /\ pc = "encoded"
    /\ enc.tag = "Ok"
    /\ \E len \in 0..Len(enc.val) : br' = branches(SubSeq(enc.val, 1, len))
    /\ emitted' = <<>>
    /\ pc' = "iterating"
    /\ UNCHANGED <<n_validators, block_data, cp, enc, rec_src, rec_in, rec_shards, rec_out>>
    /\ UNCHANGED pack_vars

\* a call of Branches::next; the calls go on past the end of the sequence
BranchesNext ==
    /\ pc = "iterating"
    /\ Len(emitted) < Len(br.chunks) + 2
    /\ next(br).tag = "Ok"
    /\ br' = next(br).self
    /\ emitted' = Append(emitted, next(br).item)
    /\ UNCHANGED <<pc, n_validators, block_data, cp, enc, rec_src, rec_in, rec_shards, rec_out>>
    /\ UNCHANGED pack_vars

\* a call of make_shards_for with the parameters of a validator count
MakeShards ==
    /\ pc = "idle"
    /\ \E n \in PackValidators, payload \in Payloads :
        /\ n_validators' = n
        /\ cp' = code_params(n)
        /\ packed' = [payload |-> payload,
                      shards |-> make_shards_for(code_params(n).val, payload)]
    /\ pc' = "packed"
    /\ UNCHANGED <<block_data, enc, rec_src, rec_in, rec_shards, rec_out, br, emitted,
                   input, reads>>

\* reconstruct, handed as many chunks of the encoding as there are data
\* shards, makes its ShardInput
ShardInputOfChunks ==
    /\ pc = "encoded"
    /\ enc.tag = "Ok"
    /\ \E s \in ChunksOf(enc.val, code_params(n_validators).val.data_shards) :
        /\ shard_input(n_validators, s).some
        /\ input' = shard_input(n_validators, s).data
    /\ reads' = <<>>
    /\ pc' = "reading"
    /\ UNCHANGED <<n_validators, block_data, cp, enc, rec_src, rec_in, rec_shards, rec_out,
                   br, emitted, packed>>

\* reconstruct, handed arbitrary chunks, makes its ShardInput
ShardInputArbitrary ==
    /\ pc = "idle"
    /\ \E n \in AdvValidators :
        \E s \in AdvInputs(n) :
            /\ shard_input(n, s).some
            /\ n_validators' = n
            /\ input' = shard_input(n, s).data
    /\ reads' = <<>>
    /\ pc' = "reading"
    /\ UNCHANGED <<block_data, cp, enc, rec_src, rec_in, rec_shards, rec_out, br, emitted,
                   packed>>

\* a call of ShardInput::read with a buffer of `want` bytes
Read ==
    /\ pc = "reading"
    /\ Len(reads) < MaxReads
    /\ \E want \in Wants :
        /\ read(input, want).tag = "Ok"
        /\ input' = read(input, want).input
        /\ reads' = Append(reads, [want |-> want,
                                   bytes |-> read(input, want).bytes,
                                   cursor |-> read(input, want).input.cursor])
    /\ UNCHANGED <<pc, n_validators, block_data, cp, enc, rec_src, rec_in, rec_shards,
                   rec_out, br, emitted, packed>>

Next ==
    \/ DeriveParams
    \/ ObtainChunks
    \/ ReconstructChunks
    \/ ReconstructArbitrary
    \/ BranchesNew
    \/ BranchesNext
    \/ MakeShards
    \/ ShardInputOfChunks
    \/ ShardInputArbitrary
    \/ Read

Spec == Init /\ [][Next]_vars

\* ------------------------------------------------------------------- claims

ValidCount == n_validators \in 1..MAX_VALIDATORS

\* floor((n - 1) / 3) + 1, the number of data shards the claims name
DataShardsOf(n) == ((n - 1) \div 3) + 1

\* the number of items reconstruct may consume of its input
Consumed == Min(n_validators, Len(rec_in))

\* the i-th item of the input passes the index check
InRange(i) == rec_in[i].idx < n_validators

\* the i-th item of the input passes the length check: it has the length of
\* the first item, and that length is not zero
LengthOk(i) == Len(rec_in[i].data) = Len(rec_in[1].data) /\ Len(rec_in[1].data) # 0

IsError(r, name) == r.tag = "Err" /\ r.err.name = name

\* C1 (as claimed).  Round trip: for every n in 1..256 obtain_chunks returns
\* chunks, and reconstruct of any dataShards of them, each with its own index,
\* returns the block data that was encoded.
RoundTrip ==
    /\ (pc = "encoded" /\ ValidCount) => enc.tag = "Ok"
    /\ (pc = "reconstructed" /\ rec_src = "encoding" /\ ValidCount
            /\ Len(rec_in) = DataShardsOf(n_validators))
        => (rec_out.tag = "Ok" /\ rec_out.val = block_data)

\* C1, the part that holds: the round trip for every n from 2 on.
RoundTripFromTwo ==
    /\ (pc = "encoded" /\ ValidCount /\ n_validators >= 2) => enc.tag = "Ok"
    /\ (pc = "reconstructed" /\ rec_src = "encoding" /\ ValidCount
            /\ Len(rec_in) = DataShardsOf(n_validators))
        => (rec_out.tag = "Ok" /\ rec_out.val = block_data)

\* a round trip was made from chunks that include a parity chunk
RoundTripReached ==
    /\ pc = "reconstructed" /\ rec_src = "encoding"
    /\ Len(rec_in) = DataShardsOf(n_validators)
    /\ \E i \in 1..Len(rec_in) : rec_in[i].idx >= DataShardsOf(n_validators)
    /\ Len(block_data) = MaxData
    /\ rec_out.tag = "Ok"

\* the chunks handed to reconstruct are chunks of an encoding, each with its
\* own index (no chunk at all is that too)
OfAnEncoding == rec_src = "encoding" \/ rec_in = <<>>

\* C2 (as claimed).  Fault threshold: for every n in 1..256 reconstruct
\* succeeds on dataShards chunks of an encoding and fails with
\* NotEnoughChunks on dataShards - 1 of them.
FaultThreshold ==
    (pc = "reconstructed" /\ ValidCount /\ OfAnEncoding)
    => /\ Len(rec_in) = DataShardsOf(n_validators) => rec_out.tag = "Ok"
       /\ Len(rec_in) = DataShardsOf(n_validators) - 1
            => rec_out = Err(E("NotEnoughChunks"))

\* C2, the part that holds: the fault threshold for every n from 2 on.
FaultThresholdFromTwo ==
    (pc = "reconstructed" /\ ValidCount /\ n_validators >= 2 /\ OfAnEncoding)
    => /\ Len(rec_in) = DataShardsOf(n_validators) => rec_out.tag = "Ok"
       /\ Len(rec_in) = DataShardsOf(n_validators) - 1
            => rec_out = Err(E("NotEnoughChunks"))

\* what a call returned for the validator count of the state agrees with C3
ConfigErrorOf(r) ==
    /\ n_validators = 0 => r = Err(E("EmptyValidators"))
    /\ n_validators > MAX_VALIDATORS => r = Err(E("TooManyValidators"))
    /\ ValidCount => ~IsError(r, "EmptyValidators") /\ ~IsError(r, "TooManyValidators")

\* C3.  Configuration errors: code_params, obtain_chunks and reconstruct
\* return EmptyValidators for n = 0 and TooManyValidators for n > 256,
\* whatever the block data or the chunks are, and neither error for n in
\* 1..256.
ConfigErrors ==
    /\ pc = "params" => ConfigErrorOf(cp)
    /\ pc = "encoded" => ConfigErrorOf(enc)
    /\ pc = "reconstructed" => ConfigErrorOf(rec_out)

\* reconstruct returned TooManyValidators for chunks whose first item would
\* fail the index check and the length check
ConfigErrorsReached ==
    /\ pc = "reconstructed"
    /\ n_validators = MAX_VALIDATORS + 1
    /\ Len(rec_in) > 0
    /\ rec_in[1].idx >= n_validators
    /\ Len(rec_in[1].data) = 0
    /\ rec_out = Err(E("TooManyValidators"))

\* C4 (as claimed).  Index bounds: for a valid n, an input that contains an
\* item whose index is >= n makes reconstruct fail with
\* ChunkIndexOutOfBounds.  Stated for n from 2 on, where make_encoder does
\* not abort, so that what refutes it is the validation alone.
IndexBounds ==
    (pc = "reconstructed" /\ ValidCount /\ n_validators >= 2
        /\ \E i \in 1..Len(rec_in) : rec_in[i].idx >= n_validators)
    => IsError(rec_out, "ChunkIndexOutOfBounds")

\* C4 (amended).  For a valid n, when one of the first n items has an index
\* >= n and every item before it has an index < n and the non-zero length of
\* the first item, reconstruct fails with ChunkIndexOutOfBounds carrying that
\* index and n.
IndexBoundsAmended ==
    (pc = "reconstructed" /\ ValidCount)
    => \A i \in 1..Consumed :
        (~InRange(i) /\ \A j \in 1..(i - 1) : InRange(j) /\ LengthOk(j))
        => rec_out = Err(ChunkIndexOutOfBounds(rec_in[i].idx, n_validators))

\* reconstruct rejected an index that follows an accepted item
IndexBoundsReached ==
    /\ pc = "reconstructed" /\ ValidCount
    /\ Consumed >= 2
    /\ InRange(1) /\ LengthOk(1) /\ ~InRange(2)
    /\ rec_out = Err(ChunkIndexOutOfBounds(n_validators, n_validators))

\* C5 (as claimed).  Uniformity: for a valid n, an input that contains two
\* chunks of different byte lengths makes reconstruct fail with
\* NonUniformChunks.  Stated for n from 2 on, where make_encoder does not
\* abort, so that what refutes it is the validation alone.
Uniformity ==
    (pc = "reconstructed" /\ ValidCount /\ n_validators >= 2
        /\ \E i, j \in 1..Len(rec_in) : Len(rec_in[i].data) # Len(rec_in[j].data))
    => rec_out = Err(E("NonUniformChunks"))

\* the first of the consumed items that fails the length check
FirstLengthFailure == CHOOSE i \in 1..Consumed :
    ~LengthOk(i) /\ \A j \in 1..(i - 1) : LengthOk(j)

\* C5 (amended).  For a valid n, when two of the first n items have different
\* byte lengths, reconstruct fails: with NonUniformChunks when every item up
\* to the first one that fails the length check has an index < n, and with
\* ChunkIndexOutOfBounds otherwise.
UniformityAmended ==
    (pc = "reconstructed" /\ ValidCount
        /\ \E i, j \in 1..Consumed : Len(rec_in[i].data) # Len(rec_in[j].data))
    => IF \A j \in 1..FirstLengthFailure : InRange(j)
       THEN rec_out = Err(E("NonUniformChunks"))
       ELSE IsError(rec_out, "ChunkIndexOutOfBounds")

\* reconstruct rejected a chunk whose length differs from that of the
\* accepted, non-empty first chunk
UniformityReached ==
    /\ pc = "reconstructed" /\ ValidCount
    /\ Consumed >= 2
    /\ InRange(1) /\ LengthOk(1) /\ InRange(2)
    /\ Len(rec_in[2].data) # Len(rec_in[1].data)
    /\ rec_out = Err(E("NonUniformChunks"))

\* the first n items of the input of reconstruct
FirstItems == SubSeq(rec_in, 1, Consumed)

\* C6.  Oversupply cap: reconstruct(n, s) returns what reconstruct(n, first n
\* items of s) returns and populates the same shard array; an index it
\* reports as out of bounds is the index of one of the first n items.
OversupplyCap ==
    pc = "reconstructed"
    => /\ rec_out = reconstruct(n_validators, FirstItems)
       /\ rec_shards = populated_shards(n_validators, FirstItems)
       /\ IsError(rec_out, "ChunkIndexOutOfBounds")
            => \E i \in 1..Consumed : rec_out.err.args[1] = rec_in[i].idx

\* reconstruct succeeded although the item after the n-th is empty and has
\* an index that is out of bounds
OversupplyCapReached ==
    /\ pc = "reconstructed" /\ ValidCount
    /\ Len(rec_in) > n_validators
    /\ rec_in[n_validators + 1].idx >= n_validators
    /\ Len(rec_in[n_validators + 1].data) = 0
    /\ rec_out.tag = "Ok"

\* the positions among the consumed items that carry index i
Occurrences(i) == {j \in 1..Consumed : rec_in[j].idx = i}

Latest(S) == CHOOSE j \in S : \A k \in S : k <= j

\* C7.  Duplicate indices: when every consumed item passes the index check
\* and the length check, reconstruct returns neither ChunkIndexOutOfBounds
\* nor NonUniformChunks, the slot of every index holds the bytes of the
\* latest consumed item with that index (no shard where there is none), and
\* the number of populated slots is the number of distinct indices.
LastWriteWins ==
    (pc = "reconstructed" /\ ValidCount
        /\ \A j \in 1..Consumed : InRange(j) /\ LengthOk(j))
    => /\ ~IsError(rec_out, "ChunkIndexOutOfBounds")
       /\ ~IsError(rec_out, "NonUniformChunks")
       /\ Len(rec_shards) = n_validators
       /\ \A i \in 0..(n_validators - 1) :
            IF Occurrences(i) = {} THEN rec_shards[i + 1] = None
            ELSE rec_shards[i + 1] = Some(rec_in[Latest(Occurrences(i))].data)
       /\ Cardinality(Present(rec_shards))
            = Cardinality({rec_in[j].idx : j \in 1..Consumed})

\* reconstruct consumed two items with the same index and different bytes
LastWriteWinsReached ==
    /\ pc = "reconstructed" /\ ValidCount
    /\ \A j \in 1..Consumed : InRange(j) /\ LengthOk(j)
    /\ \E j, k \in 1..Consumed :
        j < k /\ rec_in[j].idx = rec_in[k].idx /\ rec_in[j].data # rec_in[k].data
    /\ Cardinality(Present(rec_shards)) < Consumed

\* C8.  Derived parameters: for every n in 1..256 code_params returns
\* dataShards = floor((n-1)/3) + 1 and parityShards = n - floor((n-1)/3) - 1,
\* which add up to n, with dataShards >= 1 and no subtraction underflowing.
DerivedParams ==
    (pc = "params" /\ ValidCount)
    => /\ cp.tag = "Ok"
       /\ cp.val.data_shards = ((n_validators - 1) \div 3) + 1
       /\ cp.val.parity_shards = n_validators - ((n_validators - 1) \div 3) - 1
       /\ cp.val.data_shards + cp.val.parity_shards = n_validators
       /\ cp.val.data_shards >= 1
       /\ cp.val.parity_shards >= 0

\* code_params was applied to the largest validator count
DerivedParamsReached ==
    /\ pc = "params"
    /\ n_validators = MAX_VALIDATORS
    /\ cp.tag = "Ok"
    /\ cp.val.data_shards = 86
    /\ cp.val.parity_shards = 170

\* the chunks obtain_chunks returned have the shape C9 names
ShapeOk ==
    LET len == Len(Encode(block_data))
        d == DataShardsOf(n_validators)
    IN  /\ enc.tag = "Ok"
        /\ Len(enc.val) = n_validators
        /\ \A i \in 1..Len(enc.val) : Len(enc.val[i]) = (len \div d) + (len % d)
        /\ (len \div d) + (len % d) >= 1

\* C9 (as claimed).  Output shape: for every n in 1..256 and every payload,
\* whose encoding of length L is not empty, obtain_chunks returns n chunks,
\* each of length L / dataShards + L % dataShards, which is at least 1.
OutputShape == (pc = "encoded" /\ ValidCount) => ShapeOk

\* C9, the part that holds: the output shape for every n from 2 on.
OutputShapeFromTwo == (pc = "encoded" /\ ValidCount /\ n_validators >= 2) => ShapeOk

\* the number of chunks of the iterator
NumChunks == Len(br.chunks)

\* C10.  Branches iteration: the k-th call of next (k from 0) with k below the
\* number L of chunks returns the chunk at position k with the nodes visited
\* from the root to the leaf of the key that encodes k, which holds the hash
\* of that chunk; the calls after these return no item; no call aborts.
BranchesOrder ==
    pc = "iterating"
    => /\ next(br).tag = "Ok"
       /\ br.current_pos = Min(Len(emitted), NumChunks)
       /\ \A k \in 1..Len(emitted) :
            IF k <= NumChunks
            THEN /\ emitted[k].some
                 /\ emitted[k].chunk = br.chunks[k]
                 /\ Hash(emitted[k].nodes[1]) = root(br)
                 /\ emitted[k].nodes[Len(emitted[k].nodes)]
                        = LeafNode(EncodeU32(k - 1), Hash(br.chunks[k]))
            ELSE ~emitted[k].some

\* next was called once more than there are chunks, for chunks that differ
BranchesOrderReached ==
    /\ pc = "iterating"
    /\ NumChunks >= 3
    /\ br.chunks[1] # br.chunks[3]
    /\ Len(emitted) = NumChunks + 1
    /\ emitted[NumChunks].some
    /\ ~emitted[NumChunks + 1].some

\* the item the latest call of next returned
LastEmitted == emitted[Len(emitted)]

\* C11.  Forward only: a call of next that returns an item moves current_pos
\* up by exactly one, a call that returns no item leaves it where it is, so
\* it never decreases; after a call that returned no item every call returns
\* no item; no call changes the root, the trie storage or the chunk list.
ForwardOnly ==
    [][(pc = "iterating" /\ emitted' # emitted)
        => /\ emitted' = Append(emitted, emitted'[Len(emitted')])
           /\ IF emitted'[Len(emitted')].some
              THEN br'.current_pos = br.current_pos + 1
              ELSE br'.current_pos = br.current_pos
           /\ br'.current_pos >= br.current_pos
           /\ (Len(emitted) > 0 /\ ~LastEmitted.some) => ~emitted'[Len(emitted')].some
           /\ br'.root = br.root
           /\ br'.trie_storage = br.trie_storage
           /\ br'.chunks = br.chunks]_vars

\* next was called twice after the last of at least two chunks
ForwardOnlyReached ==
    /\ pc = "iterating"
    /\ NumChunks >= 2
    /\ Len(emitted) = NumChunks + 2
    /\ emitted[NumChunks].some
    /\ ~emitted[NumChunks + 1].some
    /\ ~LastEmitted.some
    /\ br.current_pos = NumChunks

\* the keys that encode the positions of the chunks of the iterator
IndexKeys == {EncodeU32(i) : i \in 0..(NumChunks - 1)}

\* the position a key encodes
PositionOf(key) == CHOOSE i \in 0..(NumChunks - 1) : EncodeU32(i) = key

\* the map {encoded index i -> hash(chunk i)} of the chunks of the iterator
IndexHashMap == [key \in IndexKeys |-> Hash(br.chunks[PositionOf(key) + 1])]

\* C12.  Commitment determinism: the root branches returns is the root of
\* the trie of the map {encoded index i -> hash(chunk i)} of its chunks and
\* depends on nothing else, so that equal chunk sequences have equal roots;
\* the stored nodes are the nodes of that trie.
CommitmentDeterminism ==
    pc = "iterating"
    => /\ root(br) = Hash(RootNode(IndexHashMap))
       /\ br.trie_storage = CommitNodes(IndexHashMap)
       /\ Cardinality(IndexKeys) = NumChunks

\* branches was applied to chunks of which two at different positions are
\* equal and a third is not
CommitmentDeterminismReached ==
    /\ pc = "iterating"
    /\ NumChunks >= 3
    /\ \E i, j, k \in 1..NumChunks :
        i # j /\ br.chunks[i] = br.chunks[j] /\ br.chunks[k] # br.chunks[i]
    /\ Cardinality(DOMAIN IndexHashMap) = NumChunks

\* the value a sequence of nodes proves to be stored under a key of the trie of
\* a root: the first node is the node of the root, it names under the key the
\* hash of the second node, and the second node is the leaf of the key; no
\* value when the nodes do not fit the root and the key
Replay(nodes, trie_root, key) ==
    IF Len(nodes) # 2 THEN None
    ELSE IF Hash(nodes[1]) # trie_root THEN None
    ELSE IF nodes[1].kind # "branch" THEN None
    ELSE IF key \notin DOMAIN nodes[1].children THEN None
    ELSE IF Hash(nodes[2]) # nodes[1].children[key] THEN None
    ELSE IF nodes[2].kind # "leaf" THEN None
    ELSE IF nodes[2].key # key THEN None
    ELSE Some(nodes[2].value)

\* C13.  Proof validity: for every item (nodes, chunk) a call of next
\* returned, at position i of the calls, replaying the nodes against root()
\* yields, under the key that encodes i, the hash of that chunk.
ProofValidity ==
    pc = "iterating"
    => \A k \in 1..Len(emitted) :
        emitted[k].some
        => Replay(emitted[k].nodes, root(br), EncodeU32(k - 1))
            = Some(Hash(emitted[k].chunk))

\* the last of at least three chunks was returned with its nodes, and the
\* nodes do not prove that chunk at another position
ProofValidityReached ==
    /\ pc = "iterating"
    /\ NumChunks >= 3
    /\ Len(emitted) >= NumChunks
    /\ emitted[NumChunks].some
    /\ Replay(emitted[NumChunks].nodes, root(br), EncodeU32(NumChunks - 1))
        = Some(Hash(br.chunks[NumChunks]))
    /\ Replay(emitted[NumChunks].nodes, root(br), EncodeU32(0)) = None

\* the consumed items that fail a check
Violating == {i \in 1..Consumed : ~InRange(i) \/ ~LengthOk(i)}

\* the first of them
FirstViolating == CHOOSE i \in Violating : \A j \in Violating : i <= j

\* C14.  Validation order: for a valid n, when a consumed item fails a check,
\* reconstruct returns the error of the first such item, which is
\* ChunkIndexOutOfBounds with the index of the item and n when the index is
\* >= n, whatever the length of the item is, and NonUniformChunks when the
\* index is < n and the length differs from that of the first item or that
\* length is zero; the error is returned before the shards are handed to the
\* primitive, so it is never NotEnoughChunks.  When no consumed item fails a
\* check, neither error is returned.
ValidationOrder ==
    (pc = "reconstructed" /\ ValidCount)
    => IF Violating # {}
       THEN /\ rec_out = (IF ~InRange(FirstViolating)
                          THEN Err(ChunkIndexOutOfBounds(rec_in[FirstViolating].idx,
                                                         n_validators))
                          ELSE Err(E("NonUniformChunks")))
            /\ rec_shards = <<>>
       ELSE /\ ~IsError(rec_out, "ChunkIndexOutOfBounds")
            /\ ~IsError(rec_out, "NonUniformChunks")
            /\ Len(rec_shards) = n_validators

\* reconstruct returned ChunkIndexOutOfBounds for an item that fails both
\* checks and follows an accepted item, with fewer chunks accepted than
\* there are data shards
ValidationOrderReached ==
    /\ pc = "reconstructed" /\ ValidCount
    /\ Consumed >= 2
    /\ InRange(1) /\ LengthOk(1)
    /\ ~InRange(2) /\ ~LengthOk(2)
    /\ DataShardsOf(n_validators) >= 2
    /\ rec_out = Err(ChunkIndexOutOfBounds(rec_in[2].idx, n_validators))

\* the concatenation of the first k of a sequence of byte sequences
RECURSIVE Concat(_, _)
Concat(seqs, k) == IF k = 0 THEN <<>> ELSE Concat(seqs, k - 1) \o seqs[k]

Zeros(k) == [i \in 1..k |-> 0]

\* C15.  Packing layout: for the parameters of every valid n and every
\* payload of length L >= 1, make_shards_for returns dataShards +
\* parityShards shards of shardLen = L / dataShards + L % dataShards >= 1
\* bytes with dataShards * shardLen >= L; the first dataShards shards, one
\* after the other, are the payload followed by zero bytes only, and every
\* parity slot holds zero bytes only.
PackingLayout ==
    pc = "packed"
    => LET d == cp.val.data_shards
           total == cp.val.data_shards + cp.val.parity_shards
           L == Len(packed.payload)
           len == (L \div d) + (L % d)
       IN  /\ d = DataShardsOf(n_validators)
           /\ len >= 1
           /\ d * len >= L
           /\ Len(packed.shards) = total
           /\ \A i \in 1..total : Len(packed.shards[i]) = len
           /\ Concat(packed.shards, d) = packed.payload \o Zeros(d * len - L)
           /\ \A i \in (d + 1)..total : packed.shards[i] = Zeros(len)

\* a payload without a zero byte was packed into fewer pieces than there are
\* data shards, the last piece shorter than a shard, with parity slots
PackingLayoutReached ==
    /\ pc = "packed"
    /\ cp.val.data_shards = 3
    /\ cp.val.parity_shards >= 1
    /\ Len(packed.payload) = 5
    /\ \A i \in 1..Len(packed.payload) : packed.payload[i] = 1
    /\ packed.shards[2] = <<1, 1, 0>>
    /\ packed.shards[3] = <<0, 0, 0>>

\* the bytes of shards 0..dataShards-1 of the reader, one shard after the other
DataStream ==
    Concat([i \in 1..Len(input.shards) |-> input.shards[i].data],
           DataShardsOf(n_validators))

\* the bytes the first j calls of read returned, in call order
Delivered(j) == Concat([i \in 1..Len(reads) |-> reads[i].bytes], j)

\* C16.  Stream reader: the bytes the calls of read returned, in call order,
\* are a prefix of the bytes of shards 0..dataShards-1; a call with a buffer
\* of k bytes returns exactly min(k, bytes not yet delivered) bytes; every
\* call returns.
ReadSemantics ==
    pc = "reading"
    => /\ Len(input.shards) >= DataShardsOf(n_validators)
       /\ Delivered(Len(reads)) = SubSeq(DataStream, 1, Len(Delivered(Len(reads))))
       /\ \A j \in 1..Len(reads) :
            Len(reads[j].bytes)
                = Min(reads[j].want, Len(DataStream) - Len(Delivered(j - 1)))
       /\ \A k \in Wants : read(input, k).tag = "Ok"

\* a call of read copied from two shards, and the last call returned fewer
\* bytes than its buffer holds, but some
ReadSemanticsReached ==
    /\ pc = "reading"
    /\ Len(reads) >= 2
    /\ Len(input.shards[1].data) = 1
    /\ Len(reads[1].bytes) = 2
    /\ reads[1].bytes[1] # reads[1].bytes[2]
    /\ reads[Len(reads)].want = MaxWant
    /\ Len(reads[Len(reads)].bytes) \in 1..(MaxWant - 1)
    /\ Delivered(Len(reads)) = DataStream

\* the counts are ones ReedSolomon::new accepts, as C17 names them
AcceptedCounts(params) ==
    /\ params.data_shards >= 1
    /\ params.parity_shards >= 1
    /\ params.data_shards + params.parity_shards <= 256

\* what obtain_chunks may return according to C17
EncodeOutcome(r) ==
    \/ r.tag = "Ok"
    \/ IsError(r, "TooManyValidators")
    \/ IsError(r, "EmptyValidators")
    \/ IsError(r, "BadPayload")

\* C17 (as claimed).  Encode never aborts: for every n in 1..256 code_params
\* returns counts the primitive accepts (dataShards >= 1, parityShards >= 1,
\* at most 256 in all), obtain_chunks returns chunks or one of
\* TooManyValidators, EmptyValidators, BadPayload and does not abort, and
\* reconstruct does not abort in make_encoder.
EncodeNeverAborts ==
    /\ (pc = "params" /\ ValidCount) => (cp.tag = "Ok" /\ AcceptedCounts(cp.val))
    /\ pc = "encoded" => EncodeOutcome(enc)
    /\ (pc = "reconstructed" /\ ValidCount) => rec_out.tag # "Panic"

\* C17, the part that holds: no abort and accepted counts for every n from
\* 2 on.
EncodeNeverAbortsFromTwo ==
    /\ (pc = "params" /\ ValidCount /\ n_validators >= 2)
        => (cp.tag = "Ok" /\ AcceptedCounts(cp.val))
    /\ (pc = "encoded" /\ n_validators # 1) => EncodeOutcome(enc)
    /\ (pc = "reconstructed" /\ ValidCount /\ n_validators >= 2) => rec_out.tag # "Panic"

\* the lookup of a call of next found a value under its key
LookupHit == lookup(br).tag = "Ok" /\ lookup(br).val.value.some

\* C18 (as claimed).  Every position a call of next looks up has a present
\* key, and no call of next returns the end of the sequence because its
\* lookup missed.
LookupNeverMisses ==
    [][(pc = "iterating" /\ emitted' # emitted)
        => /\ LookupHit
           /\ ~(~LookupHit /\ ~emitted'[Len(emitted')].some)]_vars

\* C18 (amended).  No lookup of next fails on the storage; the lookup of a
\* position below the number L of chunks finds its key and the call returns
\* an item; the lookup of position L, which next makes once the L items are
\* out, misses, and that miss is what the call returns as the end of the
\* sequence, without an abort.
LookupMissIsEnd ==
    [][(pc = "iterating" /\ emitted' # emitted)
        => /\ lookup(br).tag = "Ok"
           /\ br.current_pos <= NumChunks
           /\ LookupHit <=> br.current_pos < NumChunks
           /\ emitted'[Len(emitted')].some <=> LookupHit]_vars

\* the call of next after the last of the chunks returned the end of the
\* sequence, and the key of its position is not in the trie
LookupMissIsEndReached ==
    /\ pc = "iterating"
    /\ NumChunks >= 1
    /\ Len(emitted) = NumChunks + 1
    /\ ~LastEmitted.some
    /\ br.current_pos = NumChunks
    /\ lookup(br).tag = "Ok"
    /\ ~lookup(br).val.value.some
    /\ EncodeU32(br.current_pos) \notin IndexKeys

\* C19.  TooManyChunks is unreachable: for every n in 1..256 and every input
\* the shard array reconstruct has populated when it turns to the primitive
\* has exactly n = dataShards + parityShards slots, and reconstruct does not
\* return TooManyChunks.
NoTooManyChunks ==
    (pc = "reconstructed" /\ ValidCount)
    => /\ ~IsError(rec_out, "TooManyChunks")
       /\ Violating = {}
            => /\ Len(rec_shards) = n_validators
               /\ Len(rec_shards) = code_params(n_validators).val.data_shards
                                        + code_params(n_validators).val.parity_shards

\* reconstruct was handed more items than n, all of them passing the checks,
\* filled every slot and returned a payload
NoTooManyChunksReached ==
    /\ pc = "reconstructed" /\ ValidCount
    /\ Len(rec_in) > n_validators
    /\ \A j \in 1..Len(rec_in) : InRange(j) /\ LengthOk(j)
    /\ Len(rec_shards) = n_validators
    /\ Cardinality(Present(rec_shards)) = n_validators
    /\ rec_out.tag = "Ok"

\* cursor a is not after cursor b: first by shard, then by offset
NotAfter(a, b) == a[1] < b[1] \/ (a[1] = b[1] /\ a[2] <= b[2])

\* the cursor before the j-th call of read
CursorBefore(j) == IF j = 1 THEN <<0, 0>> ELSE reads[j - 1].cursor

\* C20.  Reader cursor: for a ShardInput reconstruct has made and whatever
\* calls of read were made on it, the reader reads dataShards shards, which
\* are all there and present; 0 <= shardIndex <= dataShards and
\* 0 <= offsetInShard <= shardLen; no call of read moves the cursor
\* backwards; no call of read aborts on an index out of bounds or on a
\* missing shard.
ReaderCursor ==
    pc = "reading"
    => /\ input.data_shards = DataShardsOf(n_validators)
       /\ input.data_shards <= Len(input.shards)
       /\ \A i \in 1..input.data_shards : input.shards[i].some
       /\ input.cursor[1] \in 0..DataShardsOf(n_validators)
       /\ input.cursor[2] \in 0..Len(input.shards[1].data)
       /\ \A j \in 1..Len(reads) :
            /\ NotAfter(CursorBefore(j), reads[j].cursor)
            /\ reads[j].cursor[1] \in 0..DataShardsOf(n_validators)
            /\ reads[j].cursor[2] \in 0..Len(input.shards[1].data)
       /\ Len(reads) > 0 => input.cursor = reads[Len(reads)].cursor
       /\ \A k \in Wants : read(input, k).tag = "Ok"

\* a call of read left the cursor at the end of the first shard, and a later
\* call left it past the last data shard
ReaderCursorReached ==
    /\ pc = "reading"
    /\ Len(reads) >= 2
    /\ DataShardsOf(n_validators) >= 2
    /\ Len(input.shards[1].data) >= 2
    /\ reads[1].cursor = <<0, Len(input.shards[1].data)>>
    /\ input.cursor = <<DataShardsOf(n_validators), 0>>

====
